---- MODULE Spec2Model ----
(***************************************************************************)
(* Model of src/app.py: a Streamlit ledger whose only store is one         *)
(* spreadsheet tab per currency.  The live revision is lines 1-265; lines  *)
(* 268-690 are an earlier revision kept in the file as comments.           *)
(*                                                                         *)
(* The Korean literals of the source are written in ASCII:                 *)
(*   columns  naljja -> "date", gubun -> "kind", kategori -> "category",   *)
(*            geumaek -> "amount", memo -> "memo"                          *)
(*   kinds    su-ip -> "income", jichul -> "expense"                       *)
(*   category sikbi -> "food", wolgeup -> "salary", gita -> "other"        *)
(* A text is a sequence of one-character strings, so that formatting and   *)
(* parsing are computed character by character.                            *)
(*                                                                         *)
(* Specifications:                                                         *)
(*   Spec       one session of the live revision, requests may fail        *)
(*   SpecDuo    two sessions of the live revision on the currency KRW      *)
(*   SpecStore  load_data and save_data applied on their own to one tab    *)
(*   SpecParse  parse_currency applied on its own                          *)
(*   SpecCats   the category buttons of the earlier revision               *)
(*   SpecRates  the rates and the totals of the sidebar on their own       *)
(*   SpecApp    Spec and SpecRates together                                *)
(***************************************************************************)
EXTENDS Integers, Sequences, FiniteSets, TLC

VARIABLES
    store,       \* the spreadsheet: tab name -> frame (conn.read / conn.update)
    cur,         \* st.session_state['current_currency_code'], per session
    pc,          \* where each session's script run stands
    button,      \* the click (with the form's inputs) the current run serves
    df,          \* the ledger each run loaded at line 115
    net_assets,  \* the dict built at lines 142-151, per session
    ui,          \* what the run showed last: toast, error, warning, exception
    view,        \* figures of lines 205-240: inc, exp, asset, m_sum
    cats,        \* the categories: list is the list the script uses, file what
                 \* load_categories of the earlier revision would return
    call,        \* the last call of a function applied on its own
    hist         \* history of writes, for stating the claims

vars == <<store, cur, pc, button, df, net_assets, ui, view, cats, call, hist>>

----------------------------------------------------------------------------
(* Bounds of the model.                                                    *)

MaxStrLen == 3      \* longest amount text tried on parse_currency
MaxRows == 2        \* longest ledger handed to a function applied on its own
MaxInserts == 2     \* clicks on the save button per behaviour
MaxFailures == 1    \* requests to the spreadsheet that fail per behaviour

----------------------------------------------------------------------------
(* Texts.                                                                  *)

DigitChars == <<"0", "1", "2", "3", "4", "5", "6", "7", "8", "9">>

IsDigit(c) == \E i \in 1..Len(DigitChars) : DigitChars[i] = c

DigitVal(c) == (CHOOSE i \in 1..Len(DigitChars) : DigitChars[i] = c) - 1

RECURSIVE DigitsVal(_)
\* value of a sequence of digit characters, most significant first
DigitsVal(s) ==
    IF s = <<>> THEN 0
    ELSE 10 * DigitsVal(SubSeq(s, 1, Len(s) - 1)) + DigitVal(s[Len(s)])

AllDigits(s) == \A i \in 1..Len(s) : IsDigit(s[i])

RECURSIVE Remove(_, _)
\* str.replace(c, '')
Remove(s, c) ==
    IF s = <<>> THEN <<>>
    ELSE IF Head(s) = c THEN Remove(Tail(s), c)
    ELSE <<Head(s)>> \o Remove(Tail(s), c)

RECURSIVE LStrip(_)
LStrip(s) == IF s /= <<>> /\ Head(s) = " " THEN LStrip(Tail(s)) ELSE s

RECURSIVE RStrip(_)
RStrip(s) ==
    IF s /= <<>> /\ s[Len(s)] = " " THEN RStrip(SubSeq(s, 1, Len(s) - 1)) ELSE s

\* str.strip()
Strip(s) == RStrip(LStrip(s))

\* position of the first c in s, or 0
IndexOf(s, c) ==
    IF \E i \in 1..Len(s) : s[i] = c
    THEN CHOOSE i \in 1..Len(s) : s[i] = c /\ \A j \in 1..(i - 1) : s[j] /= c
    ELSE 0

----------------------------------------------------------------------------
(* Cell values.  A spreadsheet cell read into a frame is an integer, a     *)
(* float (a blank cell reads as the float not-a-number) or a text.         *)

IntVal(n) == [t |-> "int", v |-> n]
FloatVal(tenths) == [t |-> "float", tenths |-> tenths]  \* tenths / 10
NaN == [t |-> "nan"]                                    \* float('nan')
Inf == [t |-> "inf"]                                    \* float('inf')
StrVal(s) == [t |-> "str", s |-> s]

IsNumber(x) == x.t \in {"int", "float", "nan", "inf"}

\* how a call ends: with a value, or with an exception leaving it
Returned(n) == [exc |-> "none", v |-> n]
Raised(e) == [exc |-> e, v |-> 0]

\* Python int() of a quotient: truncation toward zero
TruncDiv(a, b) == IF a >= 0 THEN a \div b ELSE -((-a) \div b)

\* int(x) for a number x: line 68
IntOfNumber(x) ==
    CASE x.t = "int" -> Returned(x.v)
      [] x.t = "float" -> Returned(TruncDiv(x.tenths, 10))
      [] x.t = "nan" -> Raised("ValueError")
      [] x.t = "inf" -> Raised("OverflowError")

\* the characters of s after an optional sign
Unsigned(s) == IF s /= <<>> /\ Head(s) \in {"-", "+"} THEN Tail(s) ELSE s

IntPart(u) ==
    IF IndexOf(u, ".") = 0 THEN u ELSE SubSeq(u, 1, IndexOf(u, ".") - 1)

FracPart(u) ==
    IF IndexOf(u, ".") = 0 THEN <<>> ELSE SubSeq(u, IndexOf(u, ".") + 1, Len(u))

\* float(s) accepts s: sign, digits, at most one point, at least one digit
IsFloatText(s) ==
    /\ AllDigits(IntPart(Unsigned(s)))
    /\ AllDigits(FracPart(Unsigned(s)))
    /\ Len(IntPart(Unsigned(s))) + Len(FracPart(Unsigned(s))) >= 1

\* int(float(s)) for an accepted s: the fraction is cut, toward zero
IntOfFloatText(s) ==
    IF s /= <<>> /\ Head(s) = "-"
    THEN -DigitsVal(IntPart(Unsigned(s)))
    ELSE DigitsVal(IntPart(Unsigned(s)))

\* lines 70-73: the branch of a value that is no number
ParseText(s) ==
    LET cleaned == Strip(Remove(s, ","))
    IN  IF cleaned = <<>> THEN Returned(0)
        ELSE IF IsFloatText(cleaned) THEN Returned(IntOfFloatText(cleaned))
        ELSE Returned(0)    \* float() raised ValueError: except: return 0

\* parse_currency, lines 67-73.  The isinstance branch of line 68 stands
\* before the try, so what int() raises there leaves the function.
parse_currency(value_str) ==
    IF IsNumber(value_str) THEN IntOfNumber(value_str)
    ELSE ParseText(value_str.s)

----------------------------------------------------------------------------
(* Dates.  In a frame a date is a Timestamp or NaT; in the spreadsheet it  *)
(* is a text (or a blank cell).                                            *)

Timestamp(y, m, d, hh) == [t |-> "ts", y |-> y, m |-> m, d |-> d, hh |-> hh]
NaT == [t |-> "NaT"]

RECURSIVE Pad(_, _)
\* n in decimal, zero-padded to w characters
Pad(n, w) ==
    IF w = 0 THEN <<>> ELSE Pad(n \div 10, w - 1) \o <<DigitChars[(n % 10) + 1]>>

\* '%Y-%m-%d'
Iso(y, m, d) == Pad(y, 4) \o <<"-">> \o Pad(m, 2) \o <<"-">> \o Pad(d, 2)

IsLeap(y) == (y % 4 = 0 /\ y % 100 /= 0) \/ y % 400 = 0

DaysIn(y, m) ==
    IF m = 2 THEN (IF IsLeap(y) THEN 28 + 1 ELSE 28)
    ELSE IF m \in {4, 6, 9, 11} THEN 30 ELSE 31

\* strftime with day and month exchanged: '%Y-%d-%m'
strftime_dm(ts) ==
    IF ts.t = "ts" THEN StrVal(Iso(ts.y, ts.d, ts.m)) ELSE NaN

\* Series.dt.strftime('%Y-%m-%d') of one value, line 61: the time of day
\* is not written
strftime(ts) ==
    IF ts.t = "ts" THEN StrVal(Iso(ts.y, ts.m, ts.d)) ELSE NaN

\* pd.to_datetime(..., errors='coerce') of one cell, line 49, for texts in
\* the form save_data writes: anything else becomes NaT
to_datetime(cell) ==
    IF cell.t /= "str" THEN NaT
    ELSE LET s == cell.s
         IN  IF /\ Len(s) = 10
                /\ s[5] = "-" /\ s[8] = "-"
                /\ AllDigits(SubSeq(s, 1, 4))
                /\ AllDigits(SubSeq(s, 6, 7))
                /\ AllDigits(SubSeq(s, 9, 10))
                /\ DigitsVal(SubSeq(s, 6, 7)) \in 1..12
                /\ DigitsVal(SubSeq(s, 9, 10)) \in
                       1..DaysIn(DigitsVal(SubSeq(s, 1, 4)), DigitsVal(SubSeq(s, 6, 7)))
             THEN Timestamp(DigitsVal(SubSeq(s, 1, 4)), DigitsVal(SubSeq(s, 6, 7)),
                            DigitsVal(SubSeq(s, 9, 10)), 0)
             ELSE NaT

----------------------------------------------------------------------------
(* Frames.  A frame (pandas DataFrame) is a set of columns and a sequence  *)
(* of rows, each row a function on the columns.  In the columns kind,      *)
(* category and memo a cell is a string; in date and amount it is one of   *)
(* the tagged values above.                                                *)

\* CURRENCY_CONFIG: the sheet_name of every currency equals its code
CURRENCY_CONFIG == {"KRW", "TWD", "USD"}

\* the column list of lines 40, 43 and 54
required_cols == {"date", "kind", "category", "amount", "memo"}

\* pd.DataFrame(columns=[...]), lines 40 and 54
EmptyLedger == [cols |-> {"date", "kind", "category", "amount", "memo"}, rows |-> <<>>]

\* a tab without any cell
EmptyTab == [cols |-> {}, rows |-> <<>>]

\* df.empty
IsEmpty(f) == f.rows = <<>> \/ f.cols = {}

\* the value line 46 puts in every cell of a column it creates: ""
BlankText(col) == IF col \in {"date", "amount"} THEN StrVal(<<>>) ELSE ""

\* lines 43-46 with only the date column in the list
WithoutRequiredCols(f) ==
    [cols |-> f.cols \cup {"date"},
     rows |-> [i \in 1..Len(f.rows) |->
                 [c \in f.cols \cup {"date"} |->
                    IF c \in f.cols THEN f.rows[i][c] ELSE StrVal(<<>>)]]]

\* lines 43-46: a column that is missing is created
WithRequiredCols(f) ==
    [cols |-> f.cols \cup required_cols,
     rows |-> [i \in 1..Len(f.rows) |->
                 [c \in f.cols \cup required_cols |->
                    IF c \in f.cols THEN f.rows[i][c] ELSE BlankText(c)]]]

\* line 49: the date column becomes Timestamps, NaT where parsing fails
WithParsedDates(f) ==
    [f EXCEPT !.rows = [i \in 1..Len(f.rows) |->
                          [f.rows[i] EXCEPT !["date"] = to_datetime(@)]]]

HasDate(r) == r["date"] /= NaT

\* load_data without line 50
KeepNaT(f) == f

\* line 50: df.dropna(subset=[date])
DropNaT(f) == [f EXCEPT !.rows = SelectSeq(f.rows, HasDate)]

\* load_data, lines 32-54, given what conn.read returns or that it raised.
\* df is the frame returned, err whether st.error was called (line 53).
load_data(tab, readRaises) ==
    IF readRaises THEN [df |-> EmptyLedger, err |-> TRUE]
    ELSE IF IsEmpty(tab) THEN [df |-> EmptyLedger, err |-> FALSE]
    ELSE [df |-> DropNaT(WithParsedDates(WithRequiredCols(tab))), err |-> FALSE]

\* lines 60-61: the copy whose date column is text
df_save(f) ==
    [f EXCEPT !.rows = [i \in 1..Len(f.rows) |->
                          [f.rows[i] EXCEPT !["date"] = strftime(@)]]]

\* an update that writes below the rows the tab holds
UpdateAppend(st, sheet_name, data) ==
    [st EXCEPT ![sheet_name] = [cols |-> data.cols, rows |-> @.rows \o data.rows]]

\* an update that writes the frame into every tab
UpdateEvery(st, sheet_name, data) == [c \in DOMAIN st |-> data]

\* conn.update(worksheet=sheet_name, data=...), line 62: the tab becomes
\* the frame given
Update(st, sheet_name, data) == [st EXCEPT ![sheet_name] = data]

\* save_data without the copy of line 60: the dates of the caller's frame
\* become text
save_data_nocopy(st, f, sheet_name, writeRaises) ==
    IF "date" \notin f.cols THEN [store |-> st, msg |-> "error", df |-> f]
    ELSE IF writeRaises THEN [store |-> st, msg |-> "error", df |-> df_save(f)]
    ELSE [store |-> Update(st, sheet_name, df_save(f)), msg |-> "toast",
          df |-> df_save(f)]

\* save_data, lines 56-65, given whether the write raised: the store after
\* it, the message shown (the toast of line 63 or the error of line 65) and
\* the caller's frame after it.  Whatever raises between lines 60 and 63 is
\* caught at line 64; the function works on a copy (line 60).
save_data(st, f, sheet_name, writeRaises) ==
    IF writeRaises \/ "date" \notin f.cols
    THEN [store |-> st, msg |-> "error", df |-> f]
    ELSE [store |-> Update(st, sheet_name, df_save(f)), msg |-> "toast", df |-> f]

----------------------------------------------------------------------------
(* Figures computed from a ledger.                                         *)

RECURSIVE SumAmounts(_)
\* Series.apply(parse_currency).sum(): the sum, or the exception of the
\* first value parse_currency raises on
SumAmounts(rows) ==
    IF rows = <<>> THEN Returned(0)
    ELSE LET first == parse_currency(Head(rows)["amount"])
             rest == SumAmounts(Tail(rows))
         IN  IF first.exc /= "none" THEN first
             ELSE IF rest.exc /= "none" THEN rest
             ELSE Returned(first.v + rest.v)

IsIncome(r) == r["kind"] = "income"
IsExpense(r) == r["kind"] = "expense"

\* the net balance over the rows of the latest year only
NetOfLatestYear(f) ==
    LET Latest(r) == \A i \in 1..Len(f.rows) : f.rows[i]["date"].y <= r["date"].y
        _inc == SumAmounts(SelectSeq(SelectSeq(f.rows, IsIncome), Latest))
        _exp == SumAmounts(SelectSeq(SelectSeq(f.rows, IsExpense), Latest))
    IN  IF _inc.exc /= "none" THEN _inc
        ELSE IF _exp.exc /= "none" THEN _exp
        ELSE Returned(_inc.v - _exp.v)

\* lines 147-149 (and 207-210 where nothing raises): income minus expense
\* over every row of the frame
NetOf(f) ==
    LET _inc == SumAmounts(SelectSeq(f.rows, IsIncome))
        _exp == SumAmounts(SelectSeq(f.rows, IsExpense))
    IN  IF _inc.exc /= "none" THEN _inc
        ELSE IF _exp.exc /= "none" THEN _exp
        ELSE Returned(_inc.v - _exp.v)

\* lines 144-151 for one currency: the frame is loaded again; an empty one
\* counts 0
net_asset(st, code, readRaises) ==
    LET _df == load_data(st[code], readRaises).df
    IN  IF IsEmpty(_df) THEN Returned(0) ELSE NetOf(_df)

\* line 224: the years that have a row
years(f) == {f.rows[i]["date"].y : i \in 1..Len(f.rows)}

\* line 228
df_year(f, selected_year) ==
    LET InYear(r) == r["date"].y = selected_year
    IN  SelectSeq(f.rows, InYear)

\* lines 234-235: groupby([Month, kind]) and sum: one entry for every pair
\* of month and kind that has a row, and no entry for any other pair
m_sum(rows) ==
    {[Month |-> k[1], kind |-> k[2],
      sum |-> LET InGroup(r) == r["date"].m = k[1] /\ r["kind"] = k[2]
              IN  SumAmounts(SelectSeq(rows, InGroup)).v] :
        k \in {<<rows[i]["date"].m, rows[i]["kind"]>> : i \in 1..Len(rows)}}

NoView == [inc |-> 0, exp |-> 0, asset |-> 0, selected_year |-> 0, m_sum |-> {}]

----------------------------------------------------------------------------
(* The insert form, lines 172-199.                                         *)

NoClick ==
    [clicked |-> FALSE, new_date |-> NaT, new_type |-> "", new_category |-> "",
     new_amount_str |-> <<>>, new_memo |-> ""]

\* lines 188-194
new_row(b, final_amount) ==
    [date |-> b.new_date, kind |-> b.new_type, category |-> b.new_category,
     amount |-> IntVal(final_amount), memo |-> b.new_memo]

\* pd.concat([df, new_row], ignore_index=True), line 195: a cell of a
\* column the other frame lacks is NaN
pd_concat(f, row) ==
    LET all == f.cols \cup DOMAIN row
        Fill(r) == [c \in all |-> IF c \in DOMAIN r THEN r[c] ELSE NaN]
    IN  [cols |-> all,
         rows |-> [i \in 1..(Len(f.rows) + 1) |->
                     IF i <= Len(f.rows) THEN Fill(f.rows[i]) ELSE Fill(row)]]

\* line 186
final_amount(b) == parse_currency(StrVal(b.new_amount_str)).v

\* a handler that reads the tab again before it appends
insert_handler_reload(st, loaded, sheet_name, b, writeRaises) ==
    IF final_amount(b) > 0
    THEN save_data(st, pd_concat(load_data(st[sheet_name], FALSE).df,
                                 new_row(b, final_amount(b))),
                   sheet_name, writeRaises)
    ELSE [store |-> st, msg |-> "warning"]

\* a handler that takes an amount of zero
insert_handler_ge(st, loaded, sheet_name, b, writeRaises) ==
    IF final_amount(b) >= 0
    THEN save_data(st, pd_concat(loaded, new_row(b, final_amount(b))),
                   sheet_name, writeRaises)
    ELSE [store |-> st, msg |-> "warning"]

\* lines 186-199, for a click: the store after it and the message shown.
\* The frame written is the one loaded at line 115 plus the new row.
insert_handler(st, loaded, sheet_name, b, writeRaises) ==
    IF final_amount(b) > 0
    THEN save_data(st, pd_concat(loaded, new_row(b, final_amount(b))),
                   sheet_name, writeRaises)
    ELSE [store |-> st, msg |-> "warning"]

----------------------------------------------------------------------------
(* The sessions.  Every interaction with the page runs the script from the *)
(* top: load of the active tab (line 115), the sidebar's net assets (lines *)
(* 142-151), the insert form (lines 185-199), the figures and the monthly  *)
(* chart (lines 205-240).  The reads and the write of a run are separate   *)
(* requests to the spreadsheet, so runs of two sessions interleave between *)
(* them.                                                                   *)

Sessions == {"A", "B"}

DEFAULT_CATEGORIES ==
    <<"food", "transport", "shopping", "telecom", "housing", "medical",
      "salary", "bonus", "dividend", "other">>

NoCall == [fn |-> "none"]

\* the history at the start: no click, no row written, no request failed,
\* nothing inserted, and what the spreadsheet held
HistAt(st) ==
    [clicks |-> 0, written |-> {}, failures |-> 0,
     inserted |-> [c \in CURRENCY_CONFIG |-> [inc |-> 0, exp |-> 0]],
     start |-> st]

\* a run starts: the script's variables of the run before are gone
StartRun(s, b) ==
    /\ pc' = [pc EXCEPT ![s] = "top"]
    /\ button' = [button EXCEPT ![s] = b]
    /\ df' = [df EXCEPT ![s] = EmptyLedger]
    /\ net_assets' = [net_assets EXCEPT ![s] = [c \in CURRENCY_CONFIG |-> 0]]
    /\ view' = [view EXCEPT ![s] = NoView]

\* the user fills the form and clicks the save button (line 185)
Click(s, b) ==
    /\ pc[s] = "idle"
    /\ hist.clicks < MaxInserts
    /\ StartRun(s, b)
    /\ ui' = [ui EXCEPT ![s] = {}]
    /\ hist' = [hist EXCEPT !.clicks = @ + 1]
    /\ UNCHANGED <<store, cur, cats, call>>

\* lines 96-108: another currency is picked; the run sets it and reruns
SelectCurrency(s, code) ==
    /\ pc[s] = "idle"
    /\ code /= cur[s]
    /\ cur' = [cur EXCEPT ![s] = code]
    /\ StartRun(s, NoClick)
    /\ ui' = [ui EXCEPT ![s] = {}]
    /\ UNCHANGED <<store, cats, call, hist>>

\* any other widget (a rate, the year) is touched: the script runs again
Rerun(s) ==
    /\ pc[s] = "idle"
    /\ StartRun(s, NoClick)
    /\ ui' = [ui EXCEPT ![s] = {}]
    /\ UNCHANGED <<store, cur, cats, call, hist>>

\* line 115: df = load_data(current_sheet)
LoadActive(s, readRaises) ==
    /\ pc[s] = "top"
    /\ readRaises => hist.failures < MaxFailures
    /\ LET r == load_data(store[cur[s]], readRaises)
       IN  /\ df' = [df EXCEPT ![s] = r.df]
           /\ ui' = [ui EXCEPT ![s] = IF r.err THEN @ \cup {"error"} ELSE @]
    /\ pc' = [pc EXCEPT ![s] = "sidebar"]
    /\ hist' = [hist EXCEPT !.failures = IF readRaises THEN @ + 1 ELSE @]
    /\ UNCHANGED <<store, cur, button, net_assets, view, cats, call>>

\* lines 142-151: every tab is loaded and its net balance computed; an
\* exception of parse_currency ends the run
NetAssets(s, failing) ==
    /\ pc[s] = "sidebar"
    /\ hist.failures + Cardinality(failing) <= MaxFailures
    /\ LET r == [code \in CURRENCY_CONFIG |-> net_asset(store, code, code \in failing)]
           raised == \E code \in CURRENCY_CONFIG : r[code].exc /= "none"
       IN  /\ net_assets' = [net_assets EXCEPT ![s] =
                               IF raised THEN @
                               ELSE [code \in CURRENCY_CONFIG |-> r[code].v]]
           /\ ui' = [ui EXCEPT ![s] =
                       (IF failing /= {} THEN @ \cup {"error"} ELSE @)
                       \cup (IF raised THEN {"exception"} ELSE {})]
           /\ pc' = [pc EXCEPT ![s] = IF raised THEN "idle" ELSE "form"]
           /\ button' = [button EXCEPT ![s] = IF raised THEN NoClick ELSE @]
    /\ hist' = [hist EXCEPT !.failures = @ + Cardinality(failing)]
    /\ UNCHANGED <<store, cur, df, view, cats, call>>

\* the history after a click on the active tab of s ended with msg
Written(s, msg) ==
    LET row == new_row(button[s], final_amount(button[s]))
        n == row["amount"].v
    IN  IF msg = "toast"
        THEN [hist EXCEPT
                !.written = @ \cup {[tab |-> cur[s],
                                     row |-> [row EXCEPT !["date"] = strftime(@)]]},
                !.inserted[cur[s]] =
                    IF row["kind"] = "income" THEN [@ EXCEPT !.inc = @ + n]
                    ELSE [@ EXCEPT !.exp = @ + n]]
        ELSE [hist EXCEPT !.failures = IF msg = "error" THEN @ + 1 ELSE @]

\* lines 185-199 when the button was clicked: after save_data the script
\* reruns (line 197); after the warning it goes on to line 205
SaveButton(s, writeRaises) ==
    /\ pc[s] = "form"
    /\ button[s].clicked
    /\ writeRaises => hist.failures < MaxFailures
    /\ LET r == insert_handler(store, df[s], cur[s], button[s], writeRaises)
       IN  /\ store' = r.store
           /\ hist' = Written(s, r.msg)
           /\ IF r.msg = "warning"
              THEN /\ pc' = [pc EXCEPT ![s] = "body"]
                   /\ button' = [button EXCEPT ![s] = NoClick]
                   /\ ui' = [ui EXCEPT ![s] = @ \cup {"warning"}]
                   /\ UNCHANGED <<df, net_assets, view>>
              ELSE /\ StartRun(s, NoClick)
                   /\ ui' = [ui EXCEPT ![s] = {r.msg}]
    /\ UNCHANGED <<cur, cats, call>>

\* lines 185-199 when it was not
NoInsert(s) ==
    /\ pc[s] = "form"
    /\ ~button[s].clicked
    /\ pc' = [pc EXCEPT ![s] = "body"]
    /\ UNCHANGED <<store, cur, button, df, net_assets, ui, view, cats, call, hist>>

\* lines 205-253: the figures of the active ledger and the monthly sums of
\* the year picked.  parse_currency is applied to every amount (line 207).
\* With an empty ledger selected_year is never assigned and line 253 raises.
Report(s, selected_year) ==
    /\ pc[s] = "body"
    /\ IF IsEmpty(df[s])
       THEN /\ selected_year = 0
            /\ view' = [view EXCEPT ![s] = NoView]
            /\ ui' = [ui EXCEPT ![s] = @ \cup {"exception"}]
       ELSE /\ selected_year \in years(df[s])
            /\ IF SumAmounts(df[s].rows).exc /= "none"
               THEN /\ view' = [view EXCEPT ![s] = NoView]
                    /\ ui' = [ui EXCEPT ![s] = @ \cup {"exception"}]
               ELSE /\ view' = [view EXCEPT ![s] =
                          [inc |-> SumAmounts(SelectSeq(df[s].rows, IsIncome)).v,
                           exp |-> SumAmounts(SelectSeq(df[s].rows, IsExpense)).v,
                           asset |-> NetOf(df[s]).v,
                           selected_year |-> selected_year,
                           m_sum |-> m_sum(df_year(df[s], selected_year))]]
                    /\ UNCHANGED ui
    /\ pc' = [pc EXCEPT ![s] = "idle"]
    /\ UNCHANGED <<store, cur, button, df, net_assets, cats, call, hist>>

\* the years a selectbox may offer in the model
Years == {0, 2024, 2025}

----------------------------------------------------------------------------
(* What the spreadsheet holds at the start, and what the user types.       *)

RawRow(date, kind, category, amount, memo) ==
    [date |-> date, kind |-> kind, category |-> category, amount |-> amount,
     memo |-> memo]

SeedRow == RawRow(StrVal(Iso(2024, 1, 15)), "income", "salary", IntVal(100), "seed")
BadDateRow == RawRow(StrVal(<<"a", "b", "c">>), "expense", "food", IntVal(7), "")
BlankAmountRow == RawRow(StrVal(Iso(2025, 3, 10)), "expense", "food", NaN, "")

SeedTab == [cols |-> required_cols, rows |-> <<SeedRow, BadDateRow>>]
BlankAmountTab == [cols |-> required_cols, rows |-> <<BlankAmountRow>>]

Form(new_date, new_type, new_category, new_amount_str, new_memo) ==
    [clicked |-> TRUE, new_date |-> new_date, new_type |-> new_type,
     new_category |-> new_category, new_amount_str |-> new_amount_str,
     new_memo |-> new_memo]

\* the forms tried with one session: both kinds, two years, the months
\* March and November, and amounts the form rejects
Forms ==
    {Form(Timestamp(2025, 3, 10, 0), "expense", "food", <<"5">>, ""),
     Form(Timestamp(2025, 11, 5, 0), "income", "salary", <<"1", ",", "2">>, "pay"),
     Form(Timestamp(2024, 11, 5, 0), "expense", "food", <<"5">>, "")}
    \cup {Form(Timestamp(2025, 3, 10, 0), "income", "salary", a, "pay") :
            a \in {<<"0">>, <<"-", "3">>, <<"a">>, <<>>}}

\* the forms tried with two sessions
FormsDuo ==
    {Form(Timestamp(2025, 3, 10, 0), k, "food", <<"5">>, "") :
        k \in {"expense", "income"}}

SessionsInit ==
    /\ cur = [s \in Sessions |-> "KRW"]       \* line 94
    /\ button = [s \in Sessions |-> NoClick]
    /\ df = [s \in Sessions |-> EmptyLedger]
    /\ net_assets = [s \in Sessions |-> [c \in CURRENCY_CONFIG |-> 0]]
    /\ ui = [s \in Sessions |-> {}]
    /\ view = [s \in Sessions |-> NoView]
    /\ cats = [list |-> DEFAULT_CATEGORIES, file |-> DEFAULT_CATEGORIES]
    /\ call = NoCall
    /\ hist = HistAt(store)

\* one step of the script of session s, or of its user; raises holds the
\* answers a request to the spreadsheet may get: FALSE it is served, TRUE it
\* raises
SessionStep(s, forms, raises) ==
    \/ \E b \in forms : Click(s, b)
    \/ Rerun(s)
    \/ \E readRaises \in raises : LoadActive(s, readRaises)
    \/ \E failing \in SUBSET {c \in CURRENCY_CONFIG : TRUE \in raises} :
           NetAssets(s, failing)
    \/ \E writeRaises \in raises : SaveButton(s, writeRaises)
    \/ NoInsert(s)
    \/ \E y \in Years : Report(s, y)

\* one session opens the page; the other one is never opened
Init ==
    /\ store \in {[c \in CURRENCY_CONFIG |-> t] : t \in {EmptyTab, SeedTab, BlankAmountTab}}
    /\ pc = [s \in Sessions |-> IF s = "A" THEN "top" ELSE "closed"]
    /\ SessionsInit

Next ==
    \/ SessionStep("A", Forms, BOOLEAN)
    \/ \E code \in CURRENCY_CONFIG : SelectCurrency("A", code)

Spec == Init /\ [][Next]_vars

\* two sessions open the page and stay on the currency KRW; the
\* spreadsheet serves every request
InitDuo ==
    /\ store \in {[c \in CURRENCY_CONFIG |-> IF c = "KRW" THEN t ELSE EmptyTab] :
                    t \in {EmptyTab, SeedTab}}
    /\ pc = [s \in Sessions |-> "top"]
    /\ SessionsInit

NextDuo == \E s \in Sessions : SessionStep(s, FormsDuo, {FALSE})

SpecDuo == InitDuo /\ [][NextDuo]_vars

----------------------------------------------------------------------------
(* parse_currency applied on its own.                                      *)

Alphabet == {"0", "1", "5", ",", ".", "-", " ", "a"}

Texts == UNION {[1..k -> Alphabet] : k \in 0..MaxStrLen}

Numbers ==
    {IntVal(n) : n \in {-5, 0, 7}}
    \cup {FloatVal(n) : n \in {-55, -5, 5, 12349}}
    \cup {NaN, Inf}

\* no session is open
Closed ==
    /\ pc = [s \in Sessions |-> "closed"]
    /\ cur = [s \in Sessions |-> "KRW"]
    /\ button = [s \in Sessions |-> NoClick]
    /\ df = [s \in Sessions |-> EmptyLedger]
    /\ net_assets = [s \in Sessions |-> [c \in CURRENCY_CONFIG |-> 0]]
    /\ ui = [s \in Sessions |-> {}]
    /\ view = [s \in Sessions |-> NoView]
    /\ cats = [list |-> DEFAULT_CATEGORIES, file |-> DEFAULT_CATEGORIES]
    /\ hist = HistAt(store)

InitParse ==
    /\ store = [c \in CURRENCY_CONFIG |-> EmptyTab]
    /\ Closed
    /\ call \in {[fn |-> "parse_currency", arg |-> x, done |-> FALSE, res |-> Returned(0)] :
                   x \in Numbers \cup {StrVal(s) : s \in Texts}}

CallParse ==
    /\ call.fn = "parse_currency"
    /\ ~call.done
    /\ call' = [call EXCEPT !.done = TRUE, !.res = parse_currency(call.arg)]
    /\ UNCHANGED <<store, cur, pc, button, df, net_assets, ui, view, cats, hist>>

NextParse == CallParse

SpecParse == InitParse /\ [][NextParse]_vars

----------------------------------------------------------------------------
(* load_data and save_data applied on their own to one tab.                *)

\* the calendar days of the samples
SampleDays == {<<2024, 1, 15>>, <<2025, 3, 10>>, <<2024, 11, 5>>}

\* rows a tab may hold: two with a date that parses, one whose date is no
\* calendar day, one whose date is no date, one whose date cell is blank
RawSamples ==
    {SeedRow,
     RawRow(StrVal(Iso(2025, 3, 10)), "expense", "food", StrVal(<<"1", ",", "5">>), "lunch"),
     RawRow(StrVal(Iso(2025, 2, 30)), "expense", "food", IntVal(7), ""),
     BadDateRow,
     RawRow(NaN, "income", "other", NaN, "")}

ColSets ==
    {{"date", "kind", "category", "amount", "memo"},
     {"date", "kind", "category", "amount"},
     {"date", "kind", "category", "memo"},
     {"kind", "category", "amount", "memo"}}

SeqsUpTo(S, n) == UNION {[1..k -> S] : k \in 0..n}

RawTabs ==
    UNION {{[cols |-> cs, rows |-> [i \in 1..Len(rs) |-> [c \in cs |-> rs[i][c]]]] :
              rs \in SeqsUpTo(RawSamples, MaxRows)} : cs \in ColSets}

\* rows of a ledger handed to save_data: a date at midnight, a date with a
\* time of day, and a row without a date
LedgerSamples ==
    {RawRow(Timestamp(2025, 3, 10, 0), "expense", "food", IntVal(12), "lunch"),
     RawRow(Timestamp(2024, 11, 5, 10), "income", "salary", StrVal(<<"1", ",", "5">>), ""),
     RawRow(NaT, "expense", "other", IntVal(3), "")}

Ledgers ==
    {[cols |-> {"date", "kind", "category", "amount", "memo"}, rows |-> rs] :
        rs \in SeqsUpTo(LedgerSamples, MaxRows)}

\* a call of the store functions: the tab it is about, the frame the tab
\* held before, the ledger given to save_data, whether the request raised,
\* what load_data returned (for save_data: the caller's ledger after the
\* call and whether st.error was called), and whether the load follows a
\* save that did not fail
StoreCall(fn, tab, before, ledger, raised, out, after_save) ==
    [fn |-> fn, tab |-> tab, before |-> before, ledger |-> ledger,
     raised |-> raised, out |-> out, after_save |-> after_save]

NoOut == [df |-> EmptyLedger, err |-> FALSE]

InitStore ==
    /\ \E t \in CURRENCY_CONFIG, raw \in RawTabs :
          /\ store = [c \in CURRENCY_CONFIG |-> IF c = t THEN raw ELSE EmptyTab]
          /\ call = StoreCall("none", t, raw, EmptyLedger, FALSE, NoOut, FALSE)
    /\ Closed

CallSave(f, writeRaises) ==
    /\ call.fn = "none"
    /\ LET r == save_data(store, f, call.tab, writeRaises)
       IN  /\ store' = r.store
           /\ call' = StoreCall("save_data", call.tab, store[call.tab], f,
                                writeRaises,
                                [df |-> r.df, err |-> r.msg = "error"], FALSE)
    /\ UNCHANGED <<cur, pc, button, df, net_assets, ui, view, cats, hist>>

CallLoad(readRaises) ==
    /\ call.fn \in {"none", "save_data"}
    /\ call' = StoreCall("load_data", call.tab, store[call.tab], call.ledger,
                         readRaises, load_data(store[call.tab], readRaises),
                         call.fn = "save_data" /\ ~call.raised)
    /\ UNCHANGED <<store, cur, pc, button, df, net_assets, ui, view, cats, hist>>

NextStore ==
    \/ \E f \in Ledgers, writeRaises \in BOOLEAN : CallSave(f, writeRaises)
    \/ \E readRaises \in BOOLEAN : CallLoad(readRaises)

SpecStore == InitStore /\ [][NextStore]_vars

----------------------------------------------------------------------------
(* The categories.  The live revision fixes them (line 116: categories =   *)
(* DEFAULT_CATEGORIES) and has no way to add or delete one (line 126).     *)
(* The only handlers for that in the file are those of the earlier         *)
(* revision, lines 396-410, modelled here on their own: the session holds  *)
(* its ledger in st.session_state['df'] and the tab holds the same rows.   *)

NewCats == {"pet", "food", ""}

\* list.remove(x): the first x is taken out
RemoveFirst(q, x) ==
    IF IndexOf(q, x) = 0 THEN q
    ELSE SubSeq(q, 1, IndexOf(q, x) - 1) \o SubSeq(q, IndexOf(q, x) + 1, Len(q))

InitCats ==
    /\ \E f \in {l \in Ledgers : \A i \in 1..Len(l.rows) : l.rows[i]["date"] /= NaT} :
          /\ store = [c \in CURRENCY_CONFIG |-> IF c = "KRW" THEN df_save(f) ELSE EmptyTab]
          /\ df = [s \in Sessions |-> IF s = "A" THEN f ELSE EmptyLedger]
    /\ pc = [s \in Sessions |-> IF s = "A" THEN "idle" ELSE "closed"]
    /\ cur = [s \in Sessions |-> "KRW"]
    /\ button = [s \in Sessions |-> NoClick]
    /\ net_assets = [s \in Sessions |-> [c \in CURRENCY_CONFIG |-> 0]]
    /\ ui = [s \in Sessions |-> {}]
    /\ view = [s \in Sessions |-> NoView]
    /\ cats = [list |-> DEFAULT_CATEGORIES, file |-> DEFAULT_CATEGORIES]
    /\ call = [fn |-> "none", arg |-> ""]
    /\ hist = HistAt(store)

\* lines 396-402 of the earlier revision: the add button
AddCategory(new_cat) ==
    /\ new_cat /= ""
    /\ new_cat \notin {cats.list[i] : i \in 1..Len(cats.list)}
    /\ cats' = [list |-> Append(cats.list, new_cat), file |-> Append(cats.list, new_cat)]
    /\ call' = [fn |-> "add_category", arg |-> new_cat]
    /\ UNCHANGED <<store, cur, pc, button, df, net_assets, ui, view, hist>>

\* lines 404-410 of the earlier revision: the delete button.  The name is
\* taken out of the list and the list is saved; neither the ledger of the
\* session nor the tab is touched.
DeleteCategory(del_cat) ==
    /\ del_cat \in {cats.list[i] : i \in 1..Len(cats.list)}
    /\ cats' = [list |-> RemoveFirst(cats.list, del_cat),
                file |-> RemoveFirst(cats.list, del_cat)]
    /\ call' = [fn |-> "delete_category", arg |-> del_cat]
    /\ UNCHANGED <<store, cur, pc, button, df, net_assets, ui, view, hist>>

NextCats ==
    \/ \E new_cat \in NewCats : AddCategory(new_cat)
    \/ \E i \in 1..Len(DEFAULT_CATEGORIES) : DeleteCategory(DEFAULT_CATEGORIES[i])
    \/ DeleteCategory("pet")

SpecCats == InitCats /\ [][NextCats]_vars

----------------------------------------------------------------------------
(* The rates and the totals of the sidebar, lines 131-162, applied on      *)
(* their own.  A rate is a float and a net balance an integer; the model   *)
(* computes with exact fractions n/d in lowest terms, d > 0.  The fraction *)
(* with d = 0 stands for a division by zero, which in Python raises        *)
(* ZeroDivisionError; every operation on it gives it again.                *)

Abs(x) == IF x < 0 THEN -x ELSE x

RECURSIVE GCD(_, _)
GCD(a, b) == IF b = 0 THEN a ELSE GCD(b, a % b)

\* the fraction n/d, d /= 0, in lowest terms
Q(n, d) ==
    LET g == GCD(Abs(n), Abs(d))
    IN  IF d < 0 THEN [n |-> (-n) \div g, d |-> (-d) \div g]
        ELSE [n |-> n \div g, d |-> d \div g]

ZeroDivisionError == [n |-> 0, d |-> 0]

QRaised(x) == x.d = 0

\* a + b, a * b and a / b of lines 157-162
QAdd(a, b) ==
    IF QRaised(a) \/ QRaised(b) THEN ZeroDivisionError
    ELSE Q(a.n * b.d + b.n * a.d, a.d * b.d)

QMul(a, b) ==
    IF QRaised(a) \/ QRaised(b) THEN ZeroDivisionError
    ELSE Q(a.n * b.n, a.d * b.d)

QDiv(a, b) ==
    IF QRaised(a) \/ QRaised(b) \/ b.n = 0 THEN ZeroDivisionError
    ELSE Q(a.n * b.d, a.d * b.n)

\* x > 0
QPositive(x) == ~QRaised(x) /\ x.n > 0

\* the fallback of lines 84 and 86: 1400.0, 32.0
FALLBACK_RATES == <<Q(1400, 1), Q(32, 1)>>

\* get_exchange_rates, lines 76-86, given the answer of the rate service:
\* its rates when it reports success, the fallback when it reports
\* anything else, when a rate is missing or when the request raised
get_exchange_rates(response) ==
    IF response.raised THEN FALLBACK_RATES
    ELSE IF response.result /= "success" THEN FALLBACK_RATES
    ELSE IF {"KRW", "TWD"} \subseteq DOMAIN response.rates
         THEN <<response.rates["KRW"], response.rates["TWD"]>>
         ELSE FALLBACK_RATES

\* lines 157-158 with the quotient turned over
rate_twd_krw_inverse(rate_usd_krw, rate_usd_twd) ==
    IF QPositive(rate_usd_twd) THEN QDiv(rate_usd_twd, rate_usd_krw) ELSE Q(0, 1)

\* lines 157-158: the TWD-to-KRW cross rate
rate_twd_krw(rate_usd_krw, rate_usd_twd) ==
    IF QPositive(rate_usd_twd) THEN QDiv(rate_usd_krw, rate_usd_twd) ELSE Q(0, 1)

\* line 160
total_asset_krw(net, rate_usd_krw, rate_usd_twd) ==
    QAdd(QAdd(Q(net["KRW"], 1), QMul(Q(net["USD"], 1), rate_usd_krw)),
         QMul(Q(net["TWD"], 1), rate_twd_krw(rate_usd_krw, rate_usd_twd)))

\* line 161
total_asset_usd(net, rate_usd_krw, rate_usd_twd) ==
    IF QPositive(rate_usd_krw)
    THEN QDiv(total_asset_krw(net, rate_usd_krw, rate_usd_twd), rate_usd_krw)
    ELSE Q(0, 1)

\* line 162
total_asset_twd(net, rate_usd_krw, rate_usd_twd) ==
    QMul(total_asset_usd(net, rate_usd_krw, rate_usd_twd), rate_usd_twd)

\* the net balances and the rates tried
Nets == {-5, 0, 7}
Rates == {Q(0, 1), Q(-2, 1), Q(1, 2), Q(32, 1), Q(1400, 1)}

\* the answers of the rate service tried
Responses ==
    {[raised |-> TRUE, result |-> "", rates |-> <<>>],
     [raised |-> FALSE, result |-> "error", rates |-> <<>>],
     [raised |-> FALSE, result |-> "success", rates |-> [KRW |-> Q(1400, 1)]],
     [raised |-> FALSE, result |-> "success",
      rates |-> [KRW |-> Q(1350, 1), TWD |-> Q(30, 1)]],
     [raised |-> FALSE, result |-> "success",
      rates |-> [KRW |-> Q(0, 1), TWD |-> Q(0, 1)]]}

NoTotals == [cross |-> Q(0, 1), krw |-> Q(0, 1), usd |-> Q(0, 1), twd |-> Q(0, 1)]

\* the sidebar's tab is drawn: net holds the net balances of lines 153-155
InitRates ==
    /\ store \in {[c \in CURRENCY_CONFIG |-> t] : t \in {EmptyTab, SeedTab, BlankAmountTab}}
    /\ Closed
    /\ call \in {[fn |-> "sidebar", net |-> net, rate_usd_krw |-> Q(0, 1),
                  rate_usd_twd |-> Q(0, 1), totals |-> NoTotals] :
                   net \in [CURRENCY_CONFIG -> Nets]}

\* lines 131-135: the rates of the service fill the two number inputs
FetchRates(response) ==
    /\ call.fn = "sidebar"
    /\ call' = [call EXCEPT !.fn = "rates",
                            !.rate_usd_krw = get_exchange_rates(response)[1],
                            !.rate_usd_twd = get_exchange_rates(response)[2]]
    /\ UNCHANGED <<store, cur, pc, button, df, net_assets, ui, view, cats, hist>>

\* lines 134-135: the user types the two rates
NumberInput(usd_krw, usd_twd) ==
    /\ call.fn = "rates"
    /\ call' = [call EXCEPT !.fn = "typed", !.rate_usd_krw = usd_krw,
                            !.rate_usd_twd = usd_twd]
    /\ UNCHANGED <<store, cur, pc, button, df, net_assets, ui, view, cats, hist>>

\* lines 157-162
Totals ==
    /\ call.fn \in {"rates", "typed"}
    /\ call' = [call EXCEPT
                  !.fn = "totals",
                  !.totals =
                      [cross |-> rate_twd_krw(call.rate_usd_krw, call.rate_usd_twd),
                       krw |-> total_asset_krw(call.net, call.rate_usd_krw, call.rate_usd_twd),
                       usd |-> total_asset_usd(call.net, call.rate_usd_krw, call.rate_usd_twd),
                       twd |-> total_asset_twd(call.net, call.rate_usd_krw, call.rate_usd_twd)]]
    /\ UNCHANGED <<store, cur, pc, button, df, net_assets, ui, view, cats, hist>>

NextRates ==
    \/ \E response \in Responses : FetchRates(response)
    \/ \E usd_krw \in Rates, usd_twd \in Rates : NumberInput(usd_krw, usd_twd)
    \/ Totals

SpecRates == InitRates /\ [][NextRates]_vars

\* the runs of one session together with the rates and totals of its
\* sidebar
InitApp == Init \/ InitRates

NextApp == Next \/ NextRates

SpecApp == InitApp /\ [][NextApp]_vars

----------------------------------------------------------------------------
(* The claims.                                                             *)

Range(q) == {q[i] : i \in 1..Len(q)}

\* the cell stored for the date dt: the text YYYY-MM-DD of its calendar
\* day, a blank cell for NaT
IsDateCellOf(cell, dt) ==
    IF dt = NaT THEN cell = NaN
    ELSE cell = StrVal(Iso(dt.y, dt.m, dt.d))

\* the stored row is the ledger row r: every field but the date is the
\* same value, the date is the text of r's day
IsStoredRowOf(stored, r) ==
    /\ DOMAIN stored = DOMAIN r
    /\ \A c \in DOMAIN r \ {"date"} : stored[c] = r[c]
    /\ IsDateCellOf(stored["date"], r["date"])

\* the rows of the tab are the rows of the ledger, one for one, in order
IsStoredLedger(tab, ledger) ==
    /\ tab.cols = ledger.cols
    /\ Len(tab.rows) = Len(ledger.rows)
    /\ \A i \in 1..Len(ledger.rows) : IsStoredRowOf(tab.rows[i], ledger.rows[i])

\* C1: after save_data(ledger, tab) ended without a write error, the tab
\* holds exactly the rows of the ledger, in its order: no row the tab held
\* before is left unless the ledger has it, none is added or merged.
C1_SaveOverwrites ==
    (call.fn = "save_data" /\ ~call.raised) =>
        /\ IsStoredLedger(store[call.tab], call.ledger)
        /\ \A r \in Range(call.before.rows) :
              r \in Range(store[call.tab].rows) =>
                  \E i \in 1..Len(call.ledger.rows) : IsStoredRowOf(r, call.ledger.rows[i])

\* C1: a save without error of a ledger with rows onto a tab that held a
\* row the ledger has not, which is gone
C1_Witness ==
    /\ call.fn = "save_data" /\ ~call.raised
    /\ call.ledger.rows /= <<>>
    /\ \E r \in Range(call.before.rows) : r \notin Range(store[call.tab].rows)

\* C2: a click that is accepted writes the rows its run loaded and the
\* new row, whatever the tab holds by then, and shows the toast: a row
\* another session saved after that load is gone, unreported.
C2_LastWriterWins ==
    [][\A s \in Sessions :
          (pc[s] = "form" /\ button[s].clicked /\ pc'[s] = "top") =>
              /\ ui'[s] = {"toast"}
              /\ IsStoredLedger(
                     store'[cur[s]],
                     [cols |-> df[s].cols,
                      rows |-> Append(df[s].rows,
                                      RawRow(button[s].new_date, button[s].new_type,
                                             button[s].new_category,
                                             IntVal(final_amount(button[s])),
                                             button[s].new_memo))])]_vars

\* C2: both sessions saved a row with the toast shown, and one of the two
\* rows is no longer in the tab
C2_Witness ==
    /\ Cardinality(hist.written) = 2
    /\ \E w \in hist.written : w.row \notin Range(store[w.tab].rows)
    /\ \E w \in hist.written : w.row \in Range(store[w.tab].rows)

\* the rows of a ledger all have a date
AllDated(ledger) == \A i \in 1..Len(ledger.rows) : ledger.rows[i]["date"] /= NaT

\* C3: a ledger whose rows all have a date, saved and then loaded with no
\* other write between (both requests served), comes back with the same
\* rows in the same order: the same kind, category, amount and memo and
\* the same calendar day in every row.
C3_RoundTrip ==
    (call.fn = "load_data" /\ call.after_save /\ ~call.raised /\ AllDated(call.ledger)) =>
        /\ call.out.df.cols = call.ledger.cols
        /\ Len(call.out.df.rows) = Len(call.ledger.rows)
        /\ \A i \in 1..Len(call.ledger.rows) :
              /\ \A c \in call.ledger.cols \ {"date"} :
                    call.out.df.rows[i][c] = call.ledger.rows[i][c]
              /\ call.out.df.rows[i]["date"].t = "ts"
              /\ call.out.df.rows[i]["date"].y = call.ledger.rows[i]["date"].y
              /\ call.out.df.rows[i]["date"].m = call.ledger.rows[i]["date"].m
              /\ call.out.df.rows[i]["date"].d = call.ledger.rows[i]["date"].d

\* C3: the round trip of a ledger of two different rows, one of them with
\* a time of day
C3_Witness ==
    /\ call.fn = "load_data" /\ call.after_save /\ ~call.raised
    /\ AllDated(call.ledger)
    /\ Len(call.ledger.rows) = 2
    /\ call.ledger.rows[1] /= call.ledger.rows[2]
    /\ call.ledger.rows[2]["date"].hh /= 0
    /\ Len(call.out.df.rows) = 2

\* C4: whatever the tab holds and whether or not the read raises,
\* load_data returns a frame with the five columns, every row of it with a
\* value in each; with an empty tab or a read that raised it has no row.
C4_LoadShape ==
    call.fn = "load_data" =>
        /\ {"date", "kind", "category", "amount", "memo"} \subseteq call.out.df.cols
        /\ \A i \in 1..Len(call.out.df.rows) :
              DOMAIN call.out.df.rows[i] = call.out.df.cols
        /\ (call.raised \/ call.before.rows = <<>>) => call.out.df.rows = <<>>

\* C4: a load of a tab that lacks a column and has a row with a date
C4_Witness ==
    /\ call.fn = "load_data" /\ ~call.raised
    /\ "memo" \notin call.before.cols
    /\ call.out.df.rows /= <<>>

\* the stored cells that are the text of a calendar day
DayCells == {StrVal(Iso(d[1], d[2], d[3])) : d \in SampleDays}

\* the places of the rows of a tab whose date is such a text
DatedPlaces(tab) ==
    {i \in 1..Len(tab.rows) : "date" \in tab.cols /\ tab.rows[i]["date"] \in DayCells}

\* the k-th of a set of places
Kth(places, k) == CHOOSE i \in places : Cardinality({j \in places : j <= i}) = k

\* C5: load_data (the read served) returns the stored rows whose date
\* parses, in the order of the tab and with their other fields as stored;
\* the rows whose date is missing or does not parse are not in the result,
\* and no error is shown for them.
C5_LoadDropsUndated ==
    (call.fn = "load_data" /\ ~call.raised) =>
        LET places == DatedPlaces(call.before)
            got == call.out.df.rows
        IN  /\ ~call.out.err
            /\ Len(got) = Cardinality(places)
            /\ \A k \in 1..Len(got) :
                  /\ \A c \in call.before.cols \ {"date"} :
                        got[k][c] = call.before.rows[Kth(places, k)][c]
                  /\ IsDateCellOf(call.before.rows[Kth(places, k)]["date"], got[k]["date"])

\* C5: a load that dropped a row standing before a row it kept
C5_Witness ==
    /\ call.fn = "load_data" /\ ~call.raised
    /\ Len(call.before.rows) = 2
    /\ Len(call.out.df.rows) = 1
    /\ call.out.df.rows[1]["kind"] = call.before.rows[2]["kind"]
    /\ call.before.rows[1]["date"] \notin DayCells

\* C6: parse_currency returns an integer that is not below zero and raises
\* nothing, for every text and every number; a text that is empty, blank or
\* no number gives 0.
C6_ParseTotal ==
    (call.fn = "parse_currency" /\ call.done) =>
        /\ call.res.exc = "none"
        /\ call.res.v >= 0
        /\ (call.arg.t = "str" /\ Strip(call.arg.s) = <<>>) => call.res.v = 0
        /\ (call.arg.t = "str" /\ \E i \in 1..Len(call.arg.s) : call.arg.s[i] = "a")
              => call.res.v = 0

\* C7: a click is accepted exactly when the parsed amount is above 0.  A
\* click with another amount leaves the store as it is, writes no row and
\* shows the warning; every row written as a new row has an amount above 0.
C7_InsertGate ==
    [][(pc["A"] = "form" /\ button["A"].clicked) =>
          /\ (final_amount(button["A"]) > 0) <=> (pc'["A"] = "top")
          /\ (final_amount(button["A"]) > 0) =>
                 (ui'["A"] = {"toast"} \/ ui'["A"] = {"error"})
          /\ ~(final_amount(button["A"]) > 0) =>
                 /\ store' = store
                 /\ hist'.written = hist.written
                 /\ "warning" \in ui'["A"]
                 /\ pc'["A"] = "body"
          /\ \A w \in hist'.written : w.row["amount"].v > 0]_vars

\* C7: a click was turned down with the warning after another one was
\* accepted and saved
C7_Witness ==
    /\ "warning" \in ui["A"]
    /\ pc["A"] = "body"
    /\ hist.clicks = 2
    /\ Cardinality(hist.written) = 1

\* C8: for a currency whose tab was empty at the start, while every
\* request was served, the net balance computed after any accepted inserts
\* is the sum of the income amounts inserted minus the sum of the expense
\* amounts inserted, over the rows of all years, whatever year is picked.
C8_NetBalance ==
    \A c \in CURRENCY_CONFIG :
        (hist.start[c] = EmptyTab /\ hist.failures = 0) =>
            /\ pc["A"] \in {"form", "body", "idle"} =>
                  net_assets["A"][c] = hist.inserted[c].inc - hist.inserted[c].exp
            /\ (pc["A"] = "idle" /\ cur["A"] = c /\ view["A"].selected_year /= 0) =>
                  view["A"].asset = hist.inserted[c].inc - hist.inserted[c].exp

\* C8: income 12 in 2025 and expense 5 in 2024 were inserted into the
\* empty KRW tab; with the year 2025 picked the net balance shown is 7
C8_Witness ==
    /\ hist.start["KRW"] = EmptyTab /\ hist.failures = 0
    /\ hist.inserted["KRW"] = [inc |-> 12, exp |-> 5]
    /\ pc["A"] = "idle" /\ cur["A"] = "KRW"
    /\ view["A"].selected_year = 2025
    /\ view["A"].asset = 7
    /\ net_assets["A"]["KRW"] = 7

\* C9: the monthly sums of a year that has a row hold an entry for each of
\* the 12 months for income and for expense, 0 where the month has no row
\* of the kind.
C9_GapFilled ==
    (pc["A"] = "idle" /\ view["A"].selected_year /= 0) =>
        \A month \in 1..12, k \in {"income", "expense"} :
            \E e \in view["A"].m_sum : e.Month = month /\ e.kind = k

\* C10: after category X is deleted no row of the ledger is tagged X, in
\* the session and in the tab: the rows that were are tagged "other".
C10_CategoryCascade ==
    call.fn = "delete_category" =>
        /\ \A i \in 1..Len(df["A"].rows) : df["A"].rows[i]["category"] /= call.arg
        /\ \A i \in 1..Len(store["KRW"].rows) : store["KRW"].rows[i]["category"] /= call.arg

\* C11: whenever the rate of a currency is zero or otherwise not positive,
\* the total expressed in that currency is computed without a division
\* error and is 0: the USD total for such a USD/KRW rate, the TWD total for
\* such a USD/TWD rate.
C11_ZeroSafety ==
    call.fn = "totals" =>
        /\ ~QRaised(call.totals.krw) /\ ~QRaised(call.totals.usd)
        /\ ~QRaised(call.totals.twd)
        /\ ~QPositive(call.rate_usd_krw) => call.totals.usd = Q(0, 1)
        /\ ~QPositive(call.rate_usd_twd) => call.totals.twd = Q(0, 1)

\* net_KRW * 1 + net_USD * (USD/KRW rate) + net_TWD * cross
BaseTotal(net, usd_krw, cross) ==
    QAdd(QAdd(QMul(Q(net["KRW"], 1), Q(1, 1)), QMul(Q(net["USD"], 1), usd_krw)),
         QMul(Q(net["TWD"], 1), cross))

\* C12 as stated: the cross rate is the USD/KRW rate divided by the USD/TWD
\* rate, and 0 when the USD/TWD rate is zero; the KRW total is net_KRW * 1 +
\* net_USD * (USD/KRW rate) + net_TWD * (cross rate); for positive rates
\* the TWD total is the KRW total divided by the cross rate.
C12_TotalsFormula ==
    call.fn = "totals" =>
        LET cross == IF call.rate_usd_twd = Q(0, 1) THEN Q(0, 1)
                     ELSE QDiv(call.rate_usd_krw, call.rate_usd_twd)
        IN  /\ call.totals.cross = cross
            /\ call.totals.krw = BaseTotal(call.net, call.rate_usd_krw, cross)
            /\ (QPositive(call.rate_usd_krw) /\ QPositive(call.rate_usd_twd)) =>
                   call.totals.twd = QDiv(call.totals.krw, cross)

\* C12 as amended: the cross rate is the USD/KRW rate divided by the
\* USD/TWD rate when the USD/TWD rate is positive, and 0 when it is zero
\* or negative; the KRW total is net_KRW * 1 + net_USD * (USD/KRW rate) +
\* net_TWD * (cross rate); for positive rates the TWD total is the KRW
\* total divided by the cross rate.
C12_TotalsFormulaAmended ==
    call.fn = "totals" =>
        LET cross == IF call.rate_usd_twd.n > 0
                     THEN QDiv(call.rate_usd_krw, call.rate_usd_twd)
                     ELSE Q(0, 1)
        IN  /\ call.totals.cross = cross
            /\ call.totals.krw = BaseTotal(call.net, call.rate_usd_krw, cross)
            /\ (QPositive(call.rate_usd_krw) /\ QPositive(call.rate_usd_twd)) =>
                   call.totals.twd = QDiv(call.totals.krw, cross)

\* C12: totals of three net balances that are not 0, for positive rates
\* whose cross rate is no whole number
C12_Witness ==
    /\ call.fn = "totals"
    /\ \A c \in CURRENCY_CONFIG : call.net[c] /= 0
    /\ call.rate_usd_krw = Q(1400, 1) /\ call.rate_usd_twd = Q(32, 1)
    /\ call.totals.cross = Q(175, 4)
    /\ call.totals.twd /= Q(0, 1)

\* C13: when the write inside save_data fails, save_data ends with the
\* error message and no exception, the ledger passed to it is left as it
\* was (it still holds its rows) and the store is left as it was (it does
\* not hold them); the next load that is served returns the stored
\* contents.
C13_SaveFailure ==
    /\ (call.fn = "save_data" /\ call.raised) =>
           /\ call.out.err
           /\ call.out.df = call.ledger
           /\ store = hist.start
    /\ (call.fn = "load_data" /\ ~call.raised /\ ~call.after_save
            /\ call.ledger.rows /= <<>>) =>
           /\ store = hist.start
           /\ call.out = load_data(hist.start[call.tab], FALSE)
           /\ Len(call.out.df.rows) = Cardinality(DatedPlaces(hist.start[call.tab]))

\* C13: the save of a ledger of two rows failed on a tab that holds two
\* rows, one of them dated, and the load after it returned that one row
C13_Witness ==
    /\ call.fn = "load_data" /\ ~call.raised /\ ~call.after_save
    /\ Len(call.ledger.rows) = 2
    /\ AllDated(call.ledger)
    /\ Len(store[call.tab].rows) = 2
    /\ Len(call.out.df.rows) = 1
    /\ call.out.df.rows[1]["memo"] \notin {call.ledger.rows[i]["memo"] : i \in 1..2}

\* C14: with one session, an insert that is accepted and saved only adds:
\* the tab of the active currency then holds the rows it held before, in
\* their order, followed by the one new row, also when the load of the run
\* raised or dropped rows whose date does not parse.
C14_InsertOnlyAdds ==
    [][(pc["A"] = "form" /\ button["A"].clicked /\ ui'["A"] = {"toast"}) =>
          LET before == store[cur["A"]].rows
              after == store'[cur["A"]].rows
          IN  /\ Len(after) = Len(before) + 1
              /\ \A i \in 1..Len(before) : after[i] = before[i]
              /\ IsStoredRowOf(after[Len(after)],
                               RawRow(button["A"].new_date, button["A"].new_type,
                                      button["A"].new_category,
                                      IntVal(final_amount(button["A"])),
                                      button["A"].new_memo))]_vars

\* C15: the store changes only in an insert that is accepted, and then only
\* in the tab of the currency that is active in that run.  The load of the
\* ledger, the net assets over all currencies, the switch of the currency,
\* an insert that is turned down, the fetch of the rates and the totals
\* leave every tab as it is.
C15_StoreFrame ==
    [][/\ store' /= store =>
              /\ pc["A"] = "form" /\ button["A"].clicked
              /\ final_amount(button["A"]) > 0
              /\ ui'["A"] = {"toast"}
       /\ \A c \in CURRENCY_CONFIG : c /= cur["A"] => store'[c] = store[c]
       /\ (\/ pc["A"] \in {"top", "sidebar", "body", "idle", "closed"}
           \/ cur' /= cur
           \/ call' /= call
           \/ (pc["A"] = "form" /\ "warning" \in ui'["A"])) => store' = store]_vars

\* C15: with the currency TWD active one insert was accepted and a later
\* one turned down; the TWD tab has changed and the two others, which hold
\* rows, have not
C15_Witness ==
    /\ cur["A"] = "TWD"
    /\ "warning" \in ui["A"]
    /\ Cardinality(hist.written) = 1
    /\ store["TWD"] /= hist.start["TWD"]
    /\ store["KRW"] = SeedTab /\ store["USD"] = SeedTab
====
